---- MODULE Spec2Model ----
(***************************************************************************)
(* State-machine model of scripts/presto_ups_monitor.py: the sampling      *)
(* thread (sample_ina219), the hand-off queue, the notification engine     *)
(* (INA219.send_ntfy_notification) and the consumer loop of main(); and of *)
(* run_container_tasks of scripts/presto_update_full.py and                *)
(* scripts/presto_compose_refresh.py.                                      *)
(*                                                                         *)
(* Units: time in seconds, voltage in millivolts, current in milliamps,    *)
(* power in milliwatts, percent in whole percent.  The sensor values the   *)
(* model draws are chosen so that every conversion of the code is exact in *)
(* integers.                                                               *)
(*                                                                         *)
(* Seven specifications share the variables.  Spec is the running monitor: *)
(* both threads, step by step, under every interleaving; its clock is      *)
(* observed at the instants of Instants only, and the sleeps of both       *)
(* threads are untimed.  EngineSpec is the monitor over the engine's full  *)
(* range of readings, a tick of the sampling thread taken as one step.     *)
(* LiveSpec is the monitor with fair scheduling when the supply is         *)
(* unplugged for good.  ReportSpec is main's loop as seen by the report    *)
(* interval, on a finer clock, each report with the answers of its         *)
(* platform queries.  StartupSpec is main from the validation of its       *)
(* arguments to the start of the sampling thread.  CalcSpec applies each   *)
(* numeric function of the monitor to the inputs of its domain.  TaskSpec  *)
(* is a run of the task list of a container script, for every way each     *)
(* command can end.                                                        *)
(***************************************************************************)
EXTENDS Integers, Sequences, FiniteSets, TLC

(* ------------------------------ bounds -------------------------------- *)
\* number of sampling ticks explored
MaxTicks == 10
\* a new tick is explored only while at most this many readings are waiting
MaxBacklog == 1
\* the capacity the hand-off queue is tested against
QueueCapacity == 1
\* the clock of the report loop runs up to this many half report intervals
MaxHalfIntervals == 6
\* number of readings the report loop consumes
MaxPolls == 6
\* number of sampling ticks explored with the engine's full range of readings
MaxEngineTicks == 10
\* number of sampling ticks before the supply is unplugged for good
MaxLiveTicks == 7
\* in the unplug scenario a tick starts only while at most this many readings
\* are waiting
MaxLiveBacklog == 0

(* ------------------------- program constants -------------------------- *)
\* timedelta(minutes=5), in seconds
notification_cooldown == 300
\* timedelta(seconds=10), in seconds
log_interval == 10
\* deque(maxlen=5)
power_maxlen == 5
\* deque(maxlen=3)
current_maxlen == 3
\* --power-threshold default 0.5 W, in mW
power_threshold == 500
\* --percent-threshold default 20.0
percent_threshold == 20
\* queue.Queue(): maxsize defaults to 0, which means "no limit"
maxsize == 0
\* the largest value INA219.read returns: data[0] * 256 + data[1]
RegisterMax == 65535
\* if value > 32767
SignedMax == 32767
\* value -= 65535
SignedWrap == 65535
\* --battery-capacity default, in mAh
battery_capacity_mAh == 1000
\* --battery-voltage default 3.7 V, in mV
battery_voltage == 3700
\* if avg_power_W < 0.1, in mW
min_avg_power == 100

None == <<>>
Some(x) == <<x>>

\* The instants at which the monitor's clock is observed: the engine tells
\* only "less than a cooldown ago" from "a cooldown or more ago".
Instants == {0, notification_cooldown}

\* The instants at which the clock of the report loop is observed: every half
\* log_interval.
ReportInstants == {(i * log_interval) \div 2 : i \in 0..MaxHalfIntervals}

\* What the sensor shows during one tick: bus voltage mV, current mA, power mW.
SensorStates ==
    { [bus |-> 3600, shunt |-> 2, current |-> 0 - 20, power |-> 1000],
      [bus |-> 3600, shunt |-> 2, current |-> 20,     power |-> 1000],
      [bus |-> 3180, shunt |-> 2, current |-> 20,     power |-> 1000] }

\* the four physical reads of a tick, in the order of the with block
Reads == {"bus_voltage", "shunt_voltage", "current", "power"}

NoSensor == [bus |-> 0, shunt |-> 0, current |-> 0, power |-> 0]
NoData == [id |-> 0, bus_voltage |-> 0, shunt_voltage |-> 0, current |-> 0,
           power |-> 0, percent |-> 0]

VARIABLES
    now,               \* datetime.now()
    sensor,            \* what the INA219 measures during the current tick
    data_lock,         \* threading.Lock(): "free" or its holder
    sampler_pc,        \* position of the sampling thread
    ticks,             \* ticks the sampling thread has started
    sample,            \* locals of the tick: the values read so far
    data_queue,        \* queue.Queue()
    power_readings,    \* ina219.power_readings, deque(maxlen=5)
    current_readings,  \* ina219.current_readings, deque(maxlen=3)
    is_unplugged,      \* ina219.is_unplugged
    last_notification, \* ina219.last_notification
    main_pc,           \* position of the main thread
    data,              \* main's local: the reading taken from the queue
    current_time,      \* send_ntfy_notification's local
    message,           \* send_ntfy_notification's local: None or the kind chosen
    last_log_time,     \* main's local
    response,          \* what requests.post returned: None or Some(status code)
    published,         \* history: number of readings put on the queue
    failed_read,       \* history: "none" or the physical read that raised
    handed,            \* history: ids handed to send_ntfy_notification, in order
    sent,              \* history: the POSTs decided, [kind, at, ok]
    run,               \* history: the current run of readings with current < -10
    suppressed,        \* history: a message-worthy reading met a running cooldown
    bus_log,           \* history: the register accesses of the current tick
    reports,           \* history: the times at which a report was logged
    lowrun,            \* history: the current run of plugged low-percent readings
    streak,            \* history (EngineSpec): the run of like currents last consumed
    last_report,       \* history (ReportSpec): the last report, as far as it got
    calc,              \* a call of one of the numeric functions: input and result
    boot,              \* main before its loop: arguments, position, what exists
    job                \* a run of run_container_tasks of a container script

vars == <<now, sensor, data_lock, sampler_pc, ticks, sample, data_queue,
          power_readings, current_readings, is_unplugged, last_notification,
          main_pc, data, current_time, message, last_log_time, response,
          published, failed_read, handed, sent, run, lowrun, suppressed,
          bus_log, reports, streak, last_report, calc, boot, job>>

samplerVars == <<sensor, data_lock, sampler_pc, ticks, sample>>
engineVars == <<current_readings, is_unplugged, last_notification>>
mainVars == <<main_pc, data, current_time, message, last_log_time, response>>
offlineVars == <<last_report, calc, boot, job>>
historyVars == <<published, failed_read, handed, sent, run, lowrun, suppressed,
                 bus_log, reports, streak>>

(* ------------------------------ helpers ------------------------------- *)

\* faulty variant of DequeAppend: a deque without maxlen
DequeAppend_Unbounded(dq, x, maxlen) ==
    Append(dq, x)

\* faulty variant: a full deque starts over with the new value
DequeAppend_Restart(dq, x, maxlen) ==
    IF Len(dq) >= maxlen THEN <<x>> ELSE Append(dq, x)

\* deque(maxlen=n).append(x): the oldest value is dropped from a full deque
DequeAppend(dq, x, maxlen) ==
    IF Len(dq) >= maxlen THEN Append(Tail(dq), x) ELSE Append(dq, x)

\* all(c < -10 for c in self.current_readings)
all_negative(cr) == \A i \in 1..Len(cr) : cr[i] < 0 - 10
\* all(c > 10 for c in self.current_readings)
all_positive(cr) == \A i \in 1..Len(cr) : cr[i] > 10

\* (self.read(_REG_BUSVOLTAGE) >> 3) * 0.004, in mV
BusVoltage_mV(value) == (value \div 8) * 4

\* the signed conversion of getShuntVoltage_mV, before the scaling by 0.01
ShuntVoltageValue(value) ==
    IF value > SignedMax THEN value - SignedWrap ELSE value

\* the signed conversion of getCurrent_mA, before the scaling by _current_lsb
CurrentValue(value) ==
    IF value > SignedMax THEN value - SignedWrap ELSE value

\* faulty variant of PowerValue: a two's complement conversion
PowerValue_TwosComplement(value) ==
    IF value > SignedMax THEN value - (SignedWrap + 1) ELSE value

\* the signed conversion of getPower_W, before the scaling by _power_lsb
PowerValue(value) ==
    IF value > SignedMax THEN value - SignedWrap ELSE value

\* faulty variant of Percent: the two clamps are missing
Percent_Unclamped(bus) ==
    ((bus - 3000) * 100) \div 1200

\* percent = (bus_voltage - 3) / 1.2 * 100, clamped to 0..100 (bus in mV)
Percent(bus) ==
    LET p == ((bus - 3000) * 100) \div 1200
    IN  IF p > 100 THEN 100 ELSE IF p < 0 THEN 0 ELSE p

RECURSIVE Sum(_)
\* sum(self.power_readings)
Sum(pr) == IF pr = <<>> THEN 0 ELSE pr[1] + Sum(Tail(pr))

\* energy_mWh = self.battery_capacity_mAh * self.battery_voltage (in volts)
energy_mWh == (battery_capacity_mAh * battery_voltage) \div 1000

\* faulty variant of estimate_battery_runtime: no test of the average
estimate_battery_runtime_Unguarded(pr) ==
    IF Len(pr) < power_maxlen THEN None
    ELSE Some([num |-> energy_mWh * Len(pr), den |-> Sum(pr)])

\* estimate_battery_runtime over the power window pr (mW); the hours are the
\* fraction num / den = energy_mWh / (average power in mW)
estimate_battery_runtime(pr) ==
    IF Len(pr) < power_maxlen THEN None
    ELSE IF Sum(pr) < min_avg_power * Len(pr) THEN None
    ELSE Some([num |-> energy_mWh * Len(pr), den |-> Sum(pr)])

RECURSIVE BitAnd(_, _)
\* x & y on non-negative integers
BitAnd(x, y) ==
    IF x = 0 \/ y = 0 THEN 0
    ELSE (x % 2) * (y % 2) + 2 * BitAnd(x \div 2, y \div 2)

\* x >> 8
ShiftRight8(x) == x \div 256

\* faulty variant of WriteBytes: the low byte first
WriteBytes_LittleEndian(value) ==
    <<BitAnd(value, 255), ShiftRight8(BitAnd(value, 65280))>>

\* INA219.write(address, data): temp[0] = (data & 0xFF00) >> 8,
\* temp[1] = data & 0xFF
WriteBytes(value) ==
    <<ShiftRight8(BitAnd(value, 65280)), BitAnd(value, 255)>>

\* INA219.read: (data[0] * 256) + data[1] of the two bytes received
ReadValue(bytes) ==
    (bytes[1] * 256) + bytes[2]

\* log_message: an "ERROR" line ends with sys.exit(1)
LogExits(log_level) == log_level = "ERROR"

\* queue.Queue.put blocks only when maxsize > 0 and the queue holds maxsize items
QueueFull(q) == maxsize > 0 /\ Len(q) >= maxsize

\* faulty variant of CooldownOver: no cooldown at all
CooldownOver_Always(last, t) ==
    TRUE

\* faulty variant of CooldownOver: > in place of >=
CooldownOver_Strict(last, t) ==
    last = None \/ t - last[1] > notification_cooldown

\* the cooldown test of send_ntfy_notification
CooldownOver(last, t) ==
    last = None \/ t - last[1] >= notification_cooldown

\* faulty variant of SelectMessage: the percent test ahead of the power test
SelectMessage_PercentFirst(cr, unplugged, power, percent) ==
    IF all_negative(cr) /\ ~unplugged THEN "unplugged"
    ELSE IF all_positive(cr) /\ unplugged THEN "reconnected"
    ELSE IF all_positive(cr) /\ percent < percent_threshold THEN "low_percent"
    ELSE IF all_positive(cr) /\ power < power_threshold THEN "low_power"
    ELSE "none"

\* faulty variant of SelectMessage: the unplug transition sends nothing
SelectMessage_SilentUnplug(cr, unplugged, power, percent) ==
    IF all_negative(cr) /\ ~unplugged THEN "none"
    ELSE IF all_positive(cr) /\ unplugged THEN "reconnected"
    ELSE IF all_positive(cr) /\ power < power_threshold THEN "low_power"
    ELSE IF all_positive(cr) /\ percent < percent_threshold THEN "low_percent"
    ELSE "none"

\* the if/elif chain that picks the message; cr is the window after the append
SelectMessage(cr, unplugged, power, percent) ==
    IF all_negative(cr) /\ ~unplugged THEN "unplugged"
    ELSE IF all_positive(cr) /\ unplugged THEN "reconnected"
    ELSE IF all_positive(cr) /\ power < power_threshold THEN "low_power"
    ELSE IF all_positive(cr) /\ percent < percent_threshold THEN "low_percent"
    ELSE "none"

\* faulty variant of NextUnplugged: the newest value alone decides
NextUnplugged_NewestOnly(cr, unplugged) ==
    IF cr[Len(cr)] < 0 - 10 /\ ~unplugged THEN TRUE
    ELSE IF cr[Len(cr)] > 10 /\ unplugged THEN FALSE
    ELSE unplugged

\* is_unplugged after the chain
NextUnplugged(cr, unplugged) ==
    IF all_negative(cr) /\ ~unplugged THEN TRUE
    ELSE IF all_positive(cr) /\ unplugged THEN FALSE
    ELSE unplugged

(* ------------------------------- Init --------------------------------- *)

\* no run of plugged low-percent readings is being followed
NoLowRun == [len |-> 0, msgs |-> 0, t0 |-> 0, t |-> 0]

\* no reading has been consumed
NoStreak == [side |-> "none", len |-> 0]

\* no report has been started
NoReport == [at |-> 0, lines |-> <<>>, failed |-> {}]

\* no container script is running
NoJob == [script |-> "none", interactive |-> FALSE, path_has |-> {},
          pc |-> "none", task |-> 0, started |-> <<>>, results |-> <<>>,
          skipped |-> {}, asked |-> FALSE, answer |-> "", raised |-> "none"]

\* no numeric function is being exercised
NoCalc == [fn |-> "none", raw |-> 0, window |-> <<>>, done |-> FALSE,
           out |-> None]

\* a float argument: nan compares false with everything
Float(x) == [nan |-> FALSE, v |-> x]
NaN == [nan |-> TRUE, v |-> 0]
FloatLe(x, k) == ~x.nan /\ x.v <= k
FloatGt(x, k) == ~x.nan /\ x.v > k

HexDigits == <<"0", "1", "2", "3", "4", "5", "6", "7", "8", "9",
               "a", "b", "c", "d", "e", "f">>
UpperHexDigits == <<"0", "1", "2", "3", "4", "5", "6", "7", "8", "9",
                    "A", "B", "C", "D", "E", "F">>
IsHexDigit(c) ==
    \E i \in 1..Len(HexDigits) : c = HexDigits[i] \/ c = UpperHexDigits[i]
HexValue(c) ==
    (CHOOSE i \in 1..Len(HexDigits) : c = HexDigits[i] \/ c = UpperHexDigits[i])
        - 1

\* the text $ is tested at: the end of the string, or just before a newline
\* that ends the string
BeforeFinalNewline(a) ==
    IF a # <<>> /\ a[Len(a)] = "\n" THEN SubSeq(a, 1, Len(a) - 1) ELSE a

\* re.match(r"^0x[0-9A-Fa-f]{2}$", args.addr); a is the sequence of characters
AddrMatches(a) ==
    LET body == BeforeFinalNewline(a)
    IN  /\ Len(body) = 4
        /\ body[1] = "0"
        /\ body[2] = "x"
        /\ IsHexDigit(body[3])
        /\ IsHexDigit(body[4])

\* int(args.addr, 16) of an address that matched: surrounding whitespace and
\* the 0x prefix are skipped
ParseAddr(a) ==
    LET body == BeforeFinalNewline(a)
    IN  16 * HexValue(body[3]) + HexValue(body[4])

\* the arguments main is started with
Addrs ==
    { <<"0", "x", "4", "3">>, <<"0", "x", "a", "F">>, <<"0", "x", "4">>,
      <<"4", "3">>, <<"0", "x", "G", "1">>, <<"0", "x", "4", "3", "5">>,
      <<"0", "X", "4", "3">>, <<"0", "x", "4", "3", "\n">> }
PowerThresholds == {NaN, Float(0 - 1), Float(0), Float(power_threshold)}
PercentThresholds ==
    {NaN, Float(0 - 1), Float(0), Float(percent_threshold), Float(100),
     Float(101)}
BatteryCapacities == {0 - 1, 0, battery_capacity_mAh}
BatteryVoltages == {NaN, Float(0), Float(battery_voltage)}

Args ==
    [addr : Addrs, power_threshold : PowerThresholds,
     percent_threshold : PercentThresholds,
     battery_capacity : BatteryCapacities, battery_voltage : BatteryVoltages]

\* the defaults of the argument parser
DefaultArgs ==
    [addr |-> <<"0", "x", "4", "3">>,
     power_threshold |-> Float(power_threshold),
     percent_threshold |-> Float(percent_threshold),
     battery_capacity |-> battery_capacity_mAh,
     battery_voltage |-> Float(battery_voltage)]

\* main with the default arguments, once it has started the sampling thread
Booted ==
    [pc |-> "running", args |-> DefaultArgs,
     ina219 |-> Some(ParseAddr(DefaultArgs.addr)),
     writes |-> <<"CALIBRATION", "CONFIG">>, thread |-> TRUE, errors |-> <<>>]

\* the monitor as main leaves it when it enters its loop
Fresh ==
    /\ now = 0
    /\ sensor = NoSensor
    /\ data_lock = "free"
    /\ sampler_pc = "sleep"
    /\ ticks = 0
    /\ sample = NoData
    /\ data_queue = <<>>
    /\ power_readings = <<>>
    /\ current_readings = <<>>
    /\ is_unplugged = FALSE
    /\ last_notification = None
    /\ main_pc = "poll"
    /\ data = NoData
    /\ current_time = 0
    /\ message = "none"
    /\ last_log_time = 0
    /\ response = None
    /\ published = 0
    /\ failed_read = "none"
    /\ handed = <<>>
    /\ sent = <<>>
    /\ run = [len |-> 0, msgs |-> 0]
    /\ suppressed = FALSE
    /\ bus_log = <<>>
    /\ reports = <<>>
    /\ lowrun = NoLowRun
    /\ streak = NoStreak
    /\ last_report = NoReport

Init ==
    /\ Fresh
    /\ calc = NoCalc
    /\ boot = Booted
    /\ job = NoJob

(* -------------------------- sampling thread --------------------------- *)

\* the process lives until the main thread leaves through sys.exit; the
\* sampling thread is a daemon thread and ends with it
Running == main_pc # "exited"

\* the register accesses of the four physical reads, in program order
BusVoltageOps ==
    << [op |-> "write", reg |-> "CALIBRATION"],
       [op |-> "read",  reg |-> "BUSVOLTAGE"],
       [op |-> "read",  reg |-> "BUSVOLTAGE"] >>
ShuntVoltageOps ==
    << [op |-> "write", reg |-> "CALIBRATION"],
       [op |-> "read",  reg |-> "SHUNTVOLTAGE"] >>
CurrentOps ==
    << [op |-> "read",  reg |-> "CURRENT"] >>
PowerOps ==
    << [op |-> "write", reg |-> "CALIBRATION"],
       [op |-> "read",  reg |-> "POWER"] >>

\* the accesses of one call, as made by thread `by` with the lock as it is
Accesses(call, ops, by) ==
    [i \in 1..Len(ops) |->
        [call |-> call, op |-> ops[i].op, reg |-> ops[i].reg, by |-> by,
         lock |-> data_lock]]

\* faulty variant of SamplerLock: the tick starts without taking the lock
SamplerLock_NoLock ==
    /\ Running
    /\ sampler_pc = "sleep"
    /\ ticks < MaxTicks
    /\ Len(data_queue) <= MaxBacklog
    /\ ticks' = ticks + 1
    /\ sampler_pc' = "bus_voltage"
    /\ bus_log' = <<>>
    /\ UNCHANGED <<now, sensor, data_lock, sample, data_queue, power_readings,
                   engineVars, mainVars, published, failed_read, handed, sent,
                   run, lowrun, suppressed, reports, streak>>
    /\ UNCHANGED offlineVars

\* with data_lock: (entry)
SamplerLock ==
    /\ Running
    /\ sampler_pc = "sleep"
    /\ data_lock = "free"
    /\ ticks < MaxTicks
    /\ Len(data_queue) <= MaxBacklog
    /\ data_lock' = "sampler"
    /\ ticks' = ticks + 1
    /\ sampler_pc' = "bus_voltage"
    /\ bus_log' = <<>>
    /\ UNCHANGED <<now, sensor, sample, data_queue, power_readings, engineVars,
                   mainVars, published, failed_read, handed, sent, run, lowrun,
                   suppressed, reports, streak>>
    /\ UNCHANGED offlineVars

\* bus_voltage = ina219.getBusVoltage_V(); from this first read on the sensor
\* shows one of SensorStates for the rest of the tick
GetBusVoltage_V ==
    /\ Running
    /\ sampler_pc = "bus_voltage"
    /\ bus_log' = bus_log \o Accesses("bus_voltage", BusVoltageOps, "sampler")
    /\ \E s \in SensorStates :
           /\ sensor' = s
           /\ sample' = [sample EXCEPT !.bus_voltage = s.bus]
    /\ sampler_pc' = "shunt_voltage"
    /\ UNCHANGED <<now, data_lock, ticks, data_queue, power_readings,
                   engineVars, mainVars, published, failed_read, handed, sent,
                   run, lowrun, suppressed, reports, streak>>
    /\ UNCHANGED offlineVars

\* shunt_voltage = ina219.getShuntVoltage_mV() / 1000
GetShuntVoltage_mV ==
    /\ Running
    /\ sampler_pc = "shunt_voltage"
    /\ bus_log' = bus_log \o Accesses("shunt_voltage", ShuntVoltageOps, "sampler")
    /\ sample' = [sample EXCEPT !.shunt_voltage = sensor.shunt]
    /\ sampler_pc' = "current"
    /\ UNCHANGED <<now, sensor, data_lock, ticks, data_queue, power_readings,
                   engineVars, mainVars, published, failed_read, handed, sent,
                   run, lowrun, suppressed, reports, streak>>
    /\ UNCHANGED offlineVars

\* current = ina219.getCurrent_mA()
GetCurrent_mA ==
    /\ Running
    /\ sampler_pc = "current"
    /\ bus_log' = bus_log \o Accesses("current", CurrentOps, "sampler")
    /\ sample' = [sample EXCEPT !.current = sensor.current]
    /\ sampler_pc' = "power"
    /\ UNCHANGED <<now, sensor, data_lock, ticks, data_queue, power_readings,
                   engineVars, mainVars, published, failed_read, handed, sent,
                   run, lowrun, suppressed, reports, streak>>
    /\ UNCHANGED offlineVars

\* power = ina219.getPower_W(), then percent, its clamp and the dict; leaving
\* the with block releases the lock
GetPower_W ==
    /\ Running
    /\ sampler_pc = "power"
    /\ bus_log' = bus_log \o Accesses("power", PowerOps, "sampler")
    /\ sample' = [sample EXCEPT !.power = sensor.power,
                                !.percent = Percent(sample.bus_voltage),
                                !.id = published + 1]
    /\ sensor' = NoSensor
    /\ data_lock' = "free"
    /\ sampler_pc' = "put"
    /\ UNCHANGED <<now, ticks, data_queue, power_readings, engineVars,
                   mainVars, published, failed_read, handed, sent, run, lowrun,
                   suppressed, reports, streak>>
    /\ UNCHANGED offlineVars

\* faulty variant of ReadFails: the put sits inside the with block, ahead of
\* the last read, so a tick whose power read raises has already published
ReadFails_PublishedEarly ==
    /\ Running
    /\ sampler_pc \in Reads
    /\ failed_read' = sampler_pc
    /\ sampler_pc' = IF LogExits("ERROR") THEN "dead" ELSE "sleep"
    /\ IF sampler_pc = "power"
       THEN /\ data_queue' = Append(data_queue,
                                    [sample EXCEPT !.id = published + 1])
            /\ published' = published + 1
       ELSE UNCHANGED <<data_queue, published>>
    /\ sensor' = NoSensor
    /\ sample' = NoData
    /\ data_lock' = "free"
    /\ UNCHANGED <<now, ticks, power_readings, engineVars,
                   mainVars, handed, sent, run, lowrun, suppressed, bus_log,
                   reports, streak>>
    /\ UNCHANGED offlineVars

\* faulty variant of ReadFails: the exception leaves the lock held
ReadFails_LockKept ==
    /\ Running
    /\ sampler_pc \in Reads
    /\ failed_read' = sampler_pc
    /\ sampler_pc' = IF LogExits("ERROR") THEN "dead" ELSE "sleep"
    /\ sensor' = NoSensor
    /\ sample' = NoData
    /\ UNCHANGED <<now, data_lock, ticks, data_queue, power_readings,
                   engineVars, mainVars, published, handed, sent, run, lowrun,
                   suppressed, bus_log, reports, streak>>
    /\ UNCHANGED offlineVars

\* the read the thread is at raises: the with block releases the lock and the
\* handler calls log_message("ERROR", ...); without the exit it would sleep
ReadFails ==
    /\ Running
    /\ sampler_pc \in Reads
    /\ failed_read' = sampler_pc
    /\ sampler_pc' = IF LogExits("ERROR") THEN "dead" ELSE "sleep"
    /\ sensor' = NoSensor
    /\ sample' = NoData
    /\ data_lock' = "free"
    /\ UNCHANGED <<now, ticks, data_queue, power_readings, engineVars,
                   mainVars, published, handed, sent, run, lowrun, suppressed, bus_log,
                   reports, streak>>
    /\ UNCHANGED offlineVars

\* data_queue.put(data); of the tick's locals only power is used afterwards
SamplerPut ==
    /\ Running
    /\ sampler_pc = "put"
    /\ ~QueueFull(data_queue)
    /\ data_queue' = Append(data_queue, sample)
    /\ published' = published + 1
    /\ sample' = [NoData EXCEPT !.power = sample.power]
    /\ sampler_pc' = "append"
    /\ UNCHANGED <<now, sensor, data_lock, ticks, power_readings,
                   engineVars, mainVars, failed_read, handed, sent, run, lowrun, suppressed, bus_log,
                   reports, streak>>
    /\ UNCHANGED offlineVars

\* ina219.power_readings.append(power), then time.sleep(2)
SamplerAppend ==
    /\ Running
    /\ sampler_pc = "append"
    /\ power_readings' = DequeAppend(power_readings, sample.power, power_maxlen)
    /\ sampler_pc' = "sleep"
    /\ sample' = NoData
    /\ UNCHANGED <<now, sensor, data_lock, ticks, data_queue,
                   engineVars, mainVars, historyVars>>
    /\ UNCHANGED offlineVars

(* ---------------------------- main thread ----------------------------- *)

\* data = data_queue.get_nowait()
MainGet ==
    /\ main_pc = "poll"
    /\ data_queue # <<>>
    /\ data' = Head(data_queue)
    /\ data_queue' = Tail(data_queue)
    /\ handed' = Append(handed, Head(data_queue).id)
    /\ main_pc' = "notify"
    /\ UNCHANGED <<now, samplerVars, power_readings, engineVars, current_time,
                   message, last_log_time, published, failed_read, sent, run, lowrun, suppressed, bus_log,
                   reports, streak>>
    /\ UNCHANGED <<offlineVars, response>>

\* the history of the run of readings with current < -10 that began with both
\* windows full and is_unplugged false
NextRun(evaluated, msg) ==
    LET start == /\ Len(power_readings) = power_maxlen
                 /\ Len(current_readings) = current_maxlen
                 /\ ~is_unplugged
        battery == IF evaluated /\ msg = "unplugged" THEN 1 ELSE 0
    IN  IF data.current >= 0 - 10 THEN [len |-> 0, msgs |-> 0]
        ELSE IF run.len = 0
             THEN IF start THEN [len |-> 1, msgs |-> battery] ELSE run
             ELSE [len |-> IF run.len < 4 THEN run.len + 1 ELSE 4,
                   msgs |-> IF run.msgs + battery < 2 THEN run.msgs + battery ELSE 2]

\* the history of the run of readings with current > 10 and percent below the
\* threshold that began with both windows full, is_unplugged false and the
\* cooldown over; one run is followed at a time, up to its third reading
NextLowRun(msg) ==
    LET low == data.current > 10 /\ data.percent < percent_threshold
        start == /\ Len(power_readings) = power_maxlen
                 /\ Len(current_readings) = current_maxlen
                 /\ ~is_unplugged
                 /\ CooldownOver(last_notification, now)
        alert == IF msg = "low_percent" THEN 1 ELSE 0
    IN  IF ~low THEN NoLowRun
        ELSE IF lowrun.len \in {1, 2}
             THEN [lowrun EXCEPT !.len = @ + 1, !.msgs = @ + alert, !.t = now]
        ELSE IF start
             THEN [len |-> 1, msgs |-> alert, t0 |-> now, t |-> now]
        ELSE NoLowRun

\* the reading d would make the if/elif chain pick a message
Worthy(d) ==
    SelectMessage(DequeAppend(current_readings, d.current, current_maxlen),
                  is_unplugged, d.power, d.percent) # "none"

\* ina219.send_ntfy_notification(power, percent, current), up to the POST;
\* the locals keep a value only while a later step reads it: current_time for
\* the stamp after the POST, data not at all
SendNtfyNotification ==
    /\ main_pc = "notify"
    /\ IF Len(power_readings) < power_maxlen
       THEN /\ main_pc' = "report"
            /\ run' = NextRun(FALSE, "none")
            /\ lowrun' = NextLowRun("none")
            /\ UNCHANGED <<engineVars, current_time, message, sent, suppressed>>
       ELSE /\ IF CooldownOver(last_notification, now)
               THEN LET cr == DequeAppend(current_readings, data.current,
                                          current_maxlen)
                        msg == SelectMessage(cr, is_unplugged, data.power,
                                             data.percent)
                    IN  /\ current_readings' = cr
                        /\ is_unplugged' = NextUnplugged(cr, is_unplugged)
                        /\ message' = msg
                        /\ run' = NextRun(TRUE, msg)
                        /\ lowrun' = NextLowRun(msg)
                        /\ IF msg # "none"
                           THEN /\ main_pc' = "post"
                                /\ current_time' = now
                                /\ sent' = Append(sent, [kind |-> msg, at |-> now,
                                                         ok |-> "pending"])
                           ELSE /\ main_pc' = "report"
                                /\ current_time' = 0
                                /\ sent' = sent
                        /\ UNCHANGED <<last_notification, suppressed>>
               ELSE /\ main_pc' = "report"
                    /\ current_time' = 0
                    /\ message' = "none"
                    /\ run' = NextRun(FALSE, "none")
                    /\ lowrun' = NextLowRun("none")
                    /\ suppressed' = (suppressed \/ Worthy(data))
                    /\ UNCHANGED <<engineVars, sent>>
    /\ data' = NoData
    /\ UNCHANGED <<now, samplerVars, data_queue, power_readings,
                   last_log_time, published, failed_read, handed, bus_log,
                   reports, streak>>
    /\ UNCHANGED <<offlineVars, response>>

\* the status codes of the responses the ntfy server is seen to give
StatusCodes == {200, 500}

\* requests.post(...) returns a response, whatever its status code:
\* "Notification sent" is logged and the time kept
PostReturns ==
    /\ main_pc = "post"
    /\ \E status \in StatusCodes : response' = Some(status)
    /\ last_notification' = Some(current_time)
    /\ sent' = [sent EXCEPT ![Len(sent)].ok = "yes"]
    /\ main_pc' = "report"
    /\ UNCHANGED <<now, samplerVars, data_queue, power_readings,
                   current_readings, is_unplugged, data, current_time, message,
                   last_log_time, published, failed_read, handed, run, lowrun, suppressed, bus_log,
                   reports, streak>>
    /\ UNCHANGED offlineVars

\* requests.post(...) raises: log_message("ERROR", ...) is called
PostRaises ==
    /\ main_pc = "post"
    /\ sent' = [sent EXCEPT ![Len(sent)].ok = "no"]
    /\ main_pc' = IF LogExits("ERROR") THEN "exited" ELSE "report"
    /\ UNCHANGED <<now, samplerVars, data_queue, power_readings, engineVars,
                   data, current_time, message, last_log_time, published,
                   failed_read, handed, run, lowrun, suppressed, bus_log,
                   reports, streak>>
    /\ UNCHANGED <<offlineVars, response>>

\* faulty variant of ReportDue: any reading is reported
ReportDue_Anytime(t, last) ==
    t - last >= 0

\* datetime.now() - last_log_time >= log_interval
ReportDue(t, last) ==
    t - last >= log_interval

\* the report of main's loop: the interval test and, when it passes, the
\* report lines and last_log_time = datetime.now(); then time.sleep(0.1)
Report ==
    /\ main_pc = "report"
    /\ IF ReportDue(now, last_log_time)
       THEN /\ reports' = Append(reports, now)
            /\ last_log_time' = now
       ELSE UNCHANGED <<reports, streak, last_log_time>>
    /\ main_pc' = "poll"
    /\ data' = NoData
    /\ current_time' = 0
    /\ message' = "none"
    /\ response' = None
    /\ UNCHANGED <<now, samplerVars, data_queue, power_readings, engineVars,
                   published, failed_read, handed, sent, run, lowrun, suppressed,
                   bus_log, streak>>
    /\ UNCHANGED offlineVars

(* ------------------------------- clock -------------------------------- *)

Tick ==
    /\ Running
    /\ \E t \in Instants : t > now /\ now' = t
    /\ UNCHANGED <<samplerVars, data_queue, power_readings, engineVars,
                   mainVars, historyVars>>
    /\ UNCHANGED offlineVars

(* --------------------------- specification ---------------------------- *)

Next ==
    \/ SamplerLock
    \/ GetBusVoltage_V
    \/ GetShuntVoltage_mV
    \/ GetCurrent_mA
    \/ GetPower_W
    \/ ReadFails
    \/ SamplerPut
    \/ SamplerAppend
    \/ MainGet
    \/ SendNtfyNotification
    \/ PostReturns
    \/ PostRaises
    \/ Report
    \/ Tick

Spec == Init /\ [][Next]_vars

(* ------------------------- numeric functions -------------------------- *)
\* Each numeric function of the monitor is applied once to an input drawn
\* from its whole domain; the monitor itself stays as constructed.

monitorVars == <<now, samplerVars, data_queue, power_readings, engineVars,
                 mainVars, historyVars, last_report>>

\* the getters with a signed conversion
SignedGetters == {"getShuntVoltage_mV", "getCurrent_mA", "getPower_W"}

\* the power readings (mW) the windows of estimate_battery_runtime are made of
PowerSamples == {0, min_avg_power, power_threshold, 1000}

PowerWindows == UNION {[1..n -> PowerSamples] : n \in 0..power_maxlen}

\* values of more than 16 bits handed to INA219.write
WideValues ==
    {RegisterMax + 1, RegisterMax + 1 + 4660, 2 * (RegisterMax + 1) + 255,
     3 * (RegisterMax + 1) + 52 * 256}

CalcInputs ==
    [fn : SignedGetters \cup {"percent"}, raw : 0..RegisterMax,
     window : {<<>>}, done : {FALSE}, out : {None}]
    \cup [fn : {"write"}, raw : (0..RegisterMax) \cup WideValues,
          window : {<<>>}, done : {FALSE}, out : {None}]
    \cup [fn : {"estimate_battery_runtime"}, raw : {0},
          window : PowerWindows, done : {FALSE}, out : {None}]

CalcInit ==
    /\ Fresh
    /\ calc \in CalcInputs
    /\ boot = Booted
    /\ job = NoJob

Returns(result) == [calc EXCEPT !.done = TRUE, !.out = result]

Call_getShuntVoltage_mV ==
    /\ calc.fn = "getShuntVoltage_mV" /\ ~calc.done
    /\ calc' = Returns(Some(ShuntVoltageValue(calc.raw)))
    /\ UNCHANGED <<monitorVars, boot, job>>

Call_getCurrent_mA ==
    /\ calc.fn = "getCurrent_mA" /\ ~calc.done
    /\ calc' = Returns(Some(CurrentValue(calc.raw)))
    /\ UNCHANGED <<monitorVars, boot, job>>

Call_getPower_W ==
    /\ calc.fn = "getPower_W" /\ ~calc.done
    /\ calc' = Returns(Some(PowerValue(calc.raw)))
    /\ UNCHANGED <<monitorVars, boot, job>>

\* getBusVoltage_V on the raw register, then the percent of sample_ina219
Call_percent ==
    /\ calc.fn = "percent" /\ ~calc.done
    /\ calc' = Returns(Some(Percent(BusVoltage_mV(calc.raw))))
    /\ UNCHANGED <<monitorVars, boot, job>>

Call_estimate_battery_runtime ==
    /\ calc.fn = "estimate_battery_runtime" /\ ~calc.done
    /\ calc' = Returns(estimate_battery_runtime(calc.window))
    /\ UNCHANGED <<monitorVars, boot, job>>

\* ina219.write(address, data): the two bytes handed to write_i2c_block_data
Call_write ==
    /\ calc.fn = "write" /\ ~calc.done
    /\ calc' = Returns(Some(WriteBytes(calc.raw)))
    /\ UNCHANGED <<monitorVars, boot, job>>

\* ina219.read(address) of the register just written: read_i2c_block_data
\* returns the two bytes that were sent
Call_read ==
    /\ calc.fn = "write" /\ calc.done
    /\ calc' = [calc EXCEPT !.fn = "read", !.window = calc.out[1],
                            !.out = Some(ReadValue(calc.out[1]))]
    /\ UNCHANGED <<monitorVars, boot, job>>

CalcNext ==
    \/ Call_write
    \/ Call_read
    \/ Call_getShuntVoltage_mV
    \/ Call_getCurrent_mA
    \/ Call_getPower_W
    \/ Call_percent
    \/ Call_estimate_battery_runtime

CalcSpec == CalcInit /\ [][CalcNext]_vars

(* ---------------------------- report loop ----------------------------- *)
\* main's loop as far as the report is concerned, on a finer clock: a reading
\* is taken and handed to the engine, whose effects are those of the monitor
\* above, then the interval test decides on the report.

\* data = data_queue.get_nowait() returns a reading and
\* send_ntfy_notification returns
ReportPoll ==
    /\ main_pc = "poll"
    /\ Len(handed) < MaxPolls
    /\ handed' = Append(handed, Len(handed) + 1)
    /\ main_pc' = "report"
    /\ UNCHANGED <<now, samplerVars, data_queue, power_readings, engineVars,
                   data, current_time, message, last_log_time, response,
                   published, failed_read, sent, run, lowrun, suppressed,
                   bus_log, reports, streak, offlineVars>>

\* a field of a report line: a text or a number
Text(s) == [text |-> s, num |-> 0]
Num(n) == [text |-> "", num |-> n]

\* what a platform query gives back to its caller
Returned(v) == [raised |-> FALSE, value |-> v]
Raised == [raised |-> TRUE, value |-> None]

\* what the platform answers to the four queries: None where the call made
\* by the getter raises (temperatures in whole degrees)
PlatformStates ==
    [hostname : {None, Some("pizero")},
     ip : {None, Some("192.168.1.7")},
     cpu : {None, Some(0), Some(45)},
     gpu : {None, Some(0), Some(45)}]

\* faulty variant of get_cpu_temp: no handler around the read of the file
get_cpu_temp_NoHandler(p) ==
    IF p.cpu = None THEN Raised ELSE Returned(p.cpu)

\* get_cpu_temp: the temperature, or None when anything raised
get_cpu_temp(p) ==
    IF p.cpu = None THEN Returned(None) ELSE Returned(p.cpu)

\* get_gpu_temp: the temperature, or None when anything raised
get_gpu_temp(p) ==
    IF p.gpu = None THEN Returned(None) ELSE Returned(p.gpu)

\* get_hostname: the name, or "Unknown" when socket.gethostname raised
get_hostname(p) ==
    IF p.hostname = None THEN Returned("Unknown") ELSE Returned(p.hostname[1])

\* get_ip_address: the address, or "Unknown" when anything raised
get_ip_address(p) ==
    IF p.ip = None THEN Returned("Unknown") ELSE Returned(p.ip[1])

\* the field of a temperature line: f"{t:>6.1f}" if t else "Unknown"; None and
\* 0.0 are both false
TempField(t) ==
    IF t # None /\ t[1] # 0 THEN Num(t[1]) ELSE Text("Unknown")

\* the lines of a report in the order they are logged, each with its field
ReportLines(p) ==
    << [line |-> "Load Voltage", field |-> Num(data.bus_voltage)],
       [line |-> "Current", field |-> Num(data.current)],
       [line |-> "Power", field |-> Num(data.power)],
       [line |-> "Percent", field |-> Num(data.percent)],
       [line |-> "System Info", field |-> Text("")],
       [line |-> "Hostname", field |-> Text(get_hostname(p).value)],
       [line |-> "IP Address", field |-> Text(get_ip_address(p).value)],
       [line |-> "CPU Temp", field |-> TempField(get_cpu_temp(p).value)],
       [line |-> "GPU Temp", field |-> TempField(get_gpu_temp(p).value)],
       [line |-> "---", field |-> Text("")] >>

\* the number of lines logged before a query raises into main: all of them
\* when none does; both temperatures are queried ahead of the CPU line
LinesLogged(p) ==
    IF get_hostname(p).raised THEN 5
    ELSE IF get_ip_address(p).raised THEN 6
    ELSE IF get_cpu_temp(p).raised \/ get_gpu_temp(p).raised THEN 7
    ELSE Len(ReportLines(p))

\* the queries whose call raised inside the getter
FailedQueries(p) ==
    {q \in {"hostname", "ip", "cpu", "gpu"} : p[q] = None}

\* the report of main's loop with its platform queries: the interval test and,
\* when it passes, the report lines and last_log_time = datetime.now(); an
\* exception that reaches main ends it (the loop catches queue.Empty only)
ReportWithQueries ==
    /\ main_pc = "report"
    /\ IF ReportDue(now, last_log_time)
       THEN \E p \in PlatformStates :
                /\ last_report' = [at |-> now,
                                   lines |-> SubSeq(ReportLines(p), 1,
                                                    LinesLogged(p)),
                                   failed |-> FailedQueries(p)]
                /\ IF LinesLogged(p) = Len(ReportLines(p))
                   THEN /\ reports' = Append(reports, now)
                        /\ last_log_time' = now
                        /\ main_pc' = "poll"
                   ELSE /\ main_pc' = "exited"
                        /\ UNCHANGED <<reports, last_log_time>>
       ELSE /\ main_pc' = "poll"
            /\ UNCHANGED <<reports, last_log_time, last_report>>
    /\ data' = NoData
    /\ current_time' = 0
    /\ message' = "none"
    /\ response' = None
    /\ UNCHANGED <<now, samplerVars, data_queue, power_readings, engineVars,
                   published, failed_read, handed, sent, run, lowrun, suppressed,
                   bus_log, streak, calc, boot, job>>

ReportClock ==
    /\ \E t \in ReportInstants : t > now /\ now' = t
    /\ UNCHANGED <<samplerVars, data_queue, power_readings, engineVars,
                   mainVars, historyVars, offlineVars>>

ReportNext ==
    \/ ReportPoll
    \/ ReportWithQueries
    \/ ReportClock

ReportSpec == Init /\ [][ReportNext]_vars

(* ------------------------------ start-up ------------------------------ *)
\* main from the validation of its arguments to the start of the sampling
\* thread; the loop that follows is the monitor above.

StartupInit ==
    /\ Fresh
    /\ calc = NoCalc
    /\ job = NoJob
    /\ \E a \in Args :
           boot = [pc |-> "check_addr", args |-> a, ina219 |-> None,
                   writes |-> <<>>, thread |-> FALSE, errors |-> <<>>]

\* boot after one `if <invalid>: log_message("ERROR", ...)` of main
Checked(invalid, error, next) ==
    IF ~invalid THEN [boot EXCEPT !.pc = next]
    ELSE [boot EXCEPT !.errors = Append(@, error),
                      !.pc = IF LogExits("ERROR") THEN "exited" ELSE next]

CheckAddr ==
    /\ boot.pc = "check_addr"
    /\ boot' = Checked(~AddrMatches(boot.args.addr), "addr", "check_power")
    /\ UNCHANGED <<monitorVars, calc, job>>

CheckPowerThreshold ==
    /\ boot.pc = "check_power"
    /\ boot' = Checked(FloatLe(boot.args.power_threshold, 0),
                       "power_threshold", "check_percent")
    /\ UNCHANGED <<monitorVars, calc, job>>

CheckPercentThreshold ==
    /\ boot.pc = "check_percent"
    /\ boot' = Checked(\/ FloatLe(boot.args.percent_threshold, 0)
                       \/ FloatGt(boot.args.percent_threshold, 100),
                       "percent_threshold", "check_capacity")
    /\ UNCHANGED <<monitorVars, calc, job>>

CheckBatteryCapacity ==
    /\ boot.pc = "check_capacity"
    /\ boot' = Checked(boot.args.battery_capacity <= 0, "battery_capacity",
                       "check_voltage")
    /\ UNCHANGED <<monitorVars, calc, job>>

CheckBatteryVoltage ==
    /\ boot.pc = "check_voltage"
    /\ boot' = Checked(FloatLe(boot.args.battery_voltage, 0),
                       "battery_voltage", "construct")
    /\ UNCHANGED <<monitorVars, calc, job>>

\* ina219 = INA219(addr=int(args.addr, 16), ...): int() returns only for an
\* address of hex digits; __init__ ends with set_calibration_16V_5A, which
\* writes the calibration and the config register
Construct ==
    /\ boot.pc = "construct"
    /\ AddrMatches(boot.args.addr)
    /\ boot' = [boot EXCEPT !.ina219 = Some(ParseAddr(boot.args.addr)),
                            !.writes = <<"CALIBRATION", "CONFIG">>,
                            !.pc = "start_thread"]
    /\ UNCHANGED <<monitorVars, calc, job>>

\* sampling_thread.start()
StartThread ==
    /\ boot.pc = "start_thread"
    /\ boot' = [boot EXCEPT !.thread = TRUE, !.pc = "running"]
    /\ UNCHANGED <<monitorVars, calc, job>>

StartupNext ==
    \/ CheckAddr
    \/ CheckPowerThreshold
    \/ CheckPercentThreshold
    \/ CheckBatteryCapacity
    \/ CheckBatteryVoltage
    \/ Construct
    \/ StartThread

StartupSpec == StartupInit /\ [][StartupNext]_vars

(* ------------------------------- engine ------------------------------- *)
\* The notification engine over the full range of readings: low power, low
\* percent, both, neither, on battery.  A tick of the sampling thread whose
\* four reads return is taken as one step here (the interleavings of its
\* steps with the main thread are those of Spec), and the main thread runs as
\* in Spec.

EngineSensorStates ==
    SensorStates \cup
    { [bus |-> 3600, shunt |-> 2, current |-> 20, power |-> 400],
      [bus |-> 3180, shunt |-> 2, current |-> 20, power |-> 400] }

\* one iteration of sample_ina219 without an exception: the four reads, the
\* percent, the put and the append to the power window
EngineTick ==
    /\ Running
    /\ sampler_pc = "sleep"
    /\ ticks < MaxEngineTicks
    /\ data_queue = <<>>
    /\ \E s \in EngineSensorStates :
           /\ data_queue' = Append(data_queue,
                                   [id |-> published + 1, bus_voltage |-> s.bus,
                                    shunt_voltage |-> s.shunt,
                                    current |-> s.current, power |-> s.power,
                                    percent |-> Percent(s.bus)])
           /\ power_readings' = DequeAppend(power_readings, s.power,
                                            power_maxlen)
    /\ ticks' = ticks + 1
    /\ published' = published + 1
    /\ UNCHANGED <<now, sensor, data_lock, sampler_pc, sample, engineVars,
                   mainVars, failed_read, handed, sent, run, lowrun,
                   suppressed, bus_log, reports, streak, offlineVars>>

\* the side of the +-10 mA band a current lies on
Side(current) ==
    IF current < 0 - 10 THEN "negative"
    ELSE IF current > 10 THEN "positive"
    ELSE "neither"

\* the history of the readings taken from the queue: the side of the last one
\* and for how many readings in a row, up to current_maxlen
NextStreak(current) ==
    IF Side(current) = streak.side
    THEN [streak EXCEPT !.len = IF @ < current_maxlen THEN @ + 1 ELSE @]
    ELSE [side |-> Side(current), len |-> 1]

\* data = data_queue.get_nowait(), as MainGet, with the history of the
\* currents consumed
EngineGet ==
    /\ main_pc = "poll"
    /\ data_queue # <<>>
    /\ data' = Head(data_queue)
    /\ data_queue' = Tail(data_queue)
    /\ handed' = Append(handed, Head(data_queue).id)
    /\ streak' = NextStreak(Head(data_queue).current)
    /\ main_pc' = "notify"
    /\ UNCHANGED <<now, samplerVars, power_readings, engineVars, current_time,
                   message, last_log_time, response, published, failed_read,
                   sent, run, lowrun, suppressed, bus_log, reports,
                   offlineVars>>

EngineNext ==
    \/ EngineTick
    \/ EngineGet
    \/ SendNtfyNotification
    \/ PostReturns
    \/ PostRaises
    \/ Report
    \/ Tick

EngineSpec == Init /\ [][EngineNext]_vars

(* ------------------------------- unplug ------------------------------- *)
\* The monitor when the supply is unplugged for good: after MaxLiveTicks ticks
\* with any reading, every tick reads a current below -10 mA, every read and
\* every POST returns, and both threads and the clock keep running.  The
\* counters and the histories of ticks stop growing once the supply is
\* unplugged; the clock is observed while a cooldown is running.

\* the supply is unplugged for good
Unplugged == ticks >= MaxLiveTicks

\* what the sensor shows on battery
OnBattery == {s \in SensorStates : s.current < 0 - 10}

\* with data_lock: the four reads return, then percent, its clamp and the dict
LiveRead ==
    /\ Running
    /\ sampler_pc = "sleep"
    /\ data_lock = "free"
    /\ Len(data_queue) <= MaxLiveBacklog
    /\ \E s \in IF Unplugged THEN OnBattery ELSE SensorStates :
           sample' = [id |-> 0, bus_voltage |-> s.bus,
                      shunt_voltage |-> s.shunt, current |-> s.current,
                      power |-> s.power, percent |-> Percent(s.bus)]
    /\ ticks' = IF Unplugged THEN ticks ELSE ticks + 1
    /\ sampler_pc' = "put"
    /\ UNCHANGED <<now, sensor, data_lock, data_queue, power_readings,
                   engineVars, mainVars, historyVars, offlineVars>>

\* data_queue.put(data)
LivePut ==
    /\ Running
    /\ sampler_pc = "put"
    /\ ~QueueFull(data_queue)
    /\ data_queue' = Append(data_queue, sample)
    /\ sample' = [NoData EXCEPT !.power = sample.power]
    /\ sampler_pc' = "append"
    /\ UNCHANGED <<now, sensor, data_lock, ticks, power_readings, engineVars,
                   mainVars, historyVars, offlineVars>>

\* data = data_queue.get_nowait()
LiveGet ==
    /\ main_pc = "poll"
    /\ data_queue # <<>>
    /\ data' = Head(data_queue)
    /\ data_queue' = Tail(data_queue)
    /\ main_pc' = "notify"
    /\ UNCHANGED <<now, samplerVars, power_readings, engineVars, current_time,
                   message, last_log_time, response, historyVars,
                   offlineVars>>

\* time passes while a cooldown is running, until it is over
LiveClock ==
    /\ Running
    /\ ~CooldownOver(last_notification, now)
    /\ now' = now + notification_cooldown
    /\ UNCHANGED <<samplerVars, data_queue, power_readings, engineVars,
                   mainVars, historyVars, offlineVars>>

LiveSampler ==
    \/ LiveRead
    \/ LivePut
    \/ SamplerAppend

LiveMain ==
    \/ LiveGet
    \/ SendNtfyNotification
    \/ PostReturns
    \/ Report

LiveNext ==
    \/ LiveSampler
    \/ LiveMain
    \/ LiveClock

\* both threads are scheduled again and again (each sleeps and goes on), and
\* time passes
LiveSpec ==
    /\ Init
    /\ [][LiveNext]_vars
    /\ WF_vars(LiveSampler)
    /\ WF_vars(LiveMain)
    /\ WF_vars(LiveClock)

(* -------------------------- container tasks -------------------------- *)

\* the two container-update scripts
Scripts == {"presto_update_full", "presto_compose_refresh"}

\* TASKS of either script (the lists are the same): each command as its words,
\* "FILE" standing for DOCKER_COMPOSE_FILE
TASKS ==
    << [name |-> "down",
        command |-> <<"docker", "compose", "-f", "FILE", "down">>],
       [name |-> "pull",
        command |-> <<"docker", "compose", "-f", "FILE", "pull">>],
       [name |-> "build",
        command |-> <<"docker", "compose", "-f", "FILE", "build">>],
       [name |-> "up",
        command |-> <<"docker", "compose", "-f", "FILE", "up", "-d",
                      "--remove-orphans">>],
       [name |-> "prune",
        command |-> <<"docker", "image", "prune", "-a", "-f">>] >>

\* task["command"].startswith("docker image prune")
StartsWithPrune(command) ==
    /\ Len(command) >= 3
    /\ SubSeq(command, 1, 3) = <<"docker", "image", "prune">>

\* `word in command`: one of the command's words, or inside the path of the
\* compose file
InCommand(word, command, path_has) ==
    \/ \E i \in DOMAIN command : command[i] = word
    \/ word \in path_has /\ \E i \in DOMAIN command : command[i] = "FILE"

\* the words of interest the path of the compose file can contain (the home
\* directory is part of it)
PathWords == {{}, {"pull"}}

\* the command is run with timeout=300: in presto_update_full by subprocess.run
\* when the output is not streamed (the wait of the streamed branch follows the
\* end of the process); in presto_compose_refresh in the spinner branch only
RunsWithTimeout(script, command, path_has) ==
    IF script = "presto_update_full" THEN ~StartsWithPrune(command)
    ELSE ~(InCommand("pull", command, path_has)
               \/ InCommand("prune", command, path_has))

\* the call of subprocess is inside try/except Exception: everywhere in
\* presto_update_full, in the spinner branch in presto_compose_refresh
RunsInTry(script, command, path_has) ==
    IF script = "presto_update_full" THEN TRUE
    ELSE ~(InCommand("pull", command, path_has)
               \/ InCommand("prune", command, path_has))

\* exit codes a command is seen to end with
ExitCodes == {0, 1, 125}

Exit(code) == [kind |-> "exit", code |-> code]
TimedOut == [kind |-> "timeout", code |-> 0]
Failed == [kind |-> "raises", code |-> 0]

\* how the run of a command can end: an exit code, subprocess raising, and,
\* where a timeout is set, TimeoutExpired
Outcomes(script, command, path_has) ==
    {Exit(c) : c \in ExitCodes} \cup {Failed}
        \cup (IF RunsWithTimeout(script, command, path_has) THEN {TimedOut}
              ELSE {})

\* faulty variant: the exit code is not looked at
CommandFails_Unchecked(check, outcome) ==
    outcome.kind # "exit"

\* run_command does not return: `if check and returncode != 0`, a timeout or
\* an exception
CommandFails(check, outcome) ==
    \/ outcome.kind # "exit"
    \/ check /\ outcome.code # 0

\* what leaves run_command when it does not return: sys.exit(1), or the
\* exception itself where there is no handler around subprocess.run
Leaves(script, command, path_has, outcome) ==
    IF outcome.kind = "raises" /\ ~RunsInTry(script, command, path_has)
    THEN "Exception" ELSE "SystemExit"

\* answers given to the prune prompt, and the end of the input
Answers == {"y", "Y", " y ", "n", "yes", ""}
EndOfInput == "<EOF>"

\* input(...).strip().lower()
StripLower(answer) ==
    IF answer \in {"y", "Y", " y "} THEN "y" ELSE answer

\* a run of run_container_tasks, for each script, mode and compose file path
TaskInit ==
    /\ Fresh
    /\ calc = NoCalc
    /\ boot = Booted
    /\ \E sc \in Scripts, i \in BOOLEAN, pw \in PathWords :
           job = [NoJob EXCEPT !.script = sc, !.interactive = i,
                               !.path_has = pw, !.pc = "loop", !.task = 1]

\* the head of the loop body for the next task: the prune prompt in
\* interactive mode (skip on another answer than y, EOFError at the end of
\* the input), then run_command up to the start of the command
TaskStart ==
    /\ job.pc = "loop"
    /\ job.task <= Len(TASKS)
    /\ LET task == TASKS[job.task]
           begun == [job EXCEPT !.pc = "running",
                                !.started = Append(@, task.name)]
       IN  IF job.interactive /\ StartsWithPrune(task.command)
           THEN \E a \in Answers \cup {EndOfInput} :
                    job' = IF a = EndOfInput
                           THEN [job EXCEPT !.pc = "exited", !.asked = TRUE,
                                            !.answer = a,
                                            !.raised = "Exception"]
                           ELSE IF StripLower(a) # "y"
                           THEN [job EXCEPT !.task = @ + 1, !.asked = TRUE,
                                            !.answer = a,
                                            !.skipped = @ \cup {task.name}]
                           ELSE [begun EXCEPT !.asked = TRUE, !.answer = a]
           ELSE job' = begun
    /\ UNCHANGED <<monitorVars, calc, boot>>

\* the command ends and run_command handles it (check is True): it returns and
\* the loop goes on, or SystemExit or the exception leaves the loop, main and
\* the process (`except SystemExit` re-raises, `except Exception` of __main__
\* exits)
RunCommand ==
    /\ job.pc = "running"
    /\ LET task == TASKS[job.task]
       IN  \E o \in Outcomes(job.script, task.command, job.path_has) :
               job' = IF CommandFails(TRUE, o)
                      THEN [job EXCEPT !.pc = "exited",
                                       !.results = Append(@, o),
                                       !.raised = Leaves(job.script,
                                                         task.command,
                                                         job.path_has, o)]
                      ELSE [job EXCEPT !.pc = "loop", !.task = @ + 1,
                                       !.results = Append(@, o)]
    /\ UNCHANGED <<monitorVars, calc, boot>>

\* TASKS is exhausted: run_container_tasks returns
TasksReturn ==
    /\ job.pc = "loop"
    /\ job.task > Len(TASKS)
    /\ job' = [job EXCEPT !.pc = "returned"]
    /\ UNCHANGED <<monitorVars, calc, boot>>

TaskNext ==
    \/ TaskStart
    \/ RunCommand
    \/ TasksReturn

TaskSpec == TaskInit /\ [][TaskNext]_vars

(* ------------------------------ claims -------------------------------- *)

\* the step in which send_ntfy_notification runs up to the POST
EngineStep == main_pc = "notify" /\ main_pc' # "notify"

\* C1: start-up gating.  While the power window holds fewer than 5 samples or
\* the current window (with the reading just appended) holds fewer than 3,
\* no message is dispatched and is_unplugged does not change.
C1_StartupGating ==
    [][ (\/ Len(power_readings') < power_maxlen
         \/ Len(current_readings') < current_maxlen)
        => (sent' = sent /\ is_unplugged' = is_unplugged) ]_vars

\* C2: cooldown.  Any two consecutive dispatches are at least 5 minutes
\* apart; a reading consumed while less than 5 minutes have passed since the
\* last dispatch dispatches nothing; a reading consumed once the cooldown is
\* over (or before any dispatch) that makes the engine pick a message is
\* dispatched at that time.
C2_Cooldown ==
    [][ /\ \A i \in 1..(Len(sent') - 1) :
             sent'[i + 1].at - sent'[i].at >= notification_cooldown
        /\ (EngineStep /\ sent # <<>>
              /\ now - sent[Len(sent)].at < notification_cooldown)
           => sent' = sent
        /\ (EngineStep /\ Len(power_readings) = power_maxlen /\ Worthy(data)
              /\ (sent = <<>>
                  \/ now - sent[Len(sent)].at >= notification_cooldown))
           => (/\ Len(sent') = Len(sent) + 1
               /\ sent'[Len(sent')].at = now
               /\ main_pc' = "post") ]_vars

\* two dispatches 5 minutes apart, with a message-worthy reading consumed
\* and suppressed in between
C2_Witness ==
    /\ Len(sent) = 2
    /\ sent[2].at - sent[1].at = notification_cooldown
    /\ suppressed

\* C3: hysteresis on unplug.  Three consecutive consumed readings with
\* current < -10, the first met with both windows full and is_unplugged
\* false, leave is_unplugged true and have produced exactly one "running on
\* battery" message; a reading with current < -10 consumed while
\* is_unplugged is already true produces no message.
C3_UnplugHysteresis ==
    [][ /\ run'.len >= 3 => (is_unplugged' /\ run'.msgs = 1)
        /\ (EngineStep /\ is_unplugged /\ data.current < 0 - 10)
           => sent' = sent ]_vars

\* C4: after a tick in which a physical read raised, the sampling thread
\* is still running.
C4_SamplerSurvivesReadError ==
    failed_read # "none" => sampler_pc # "dead"

\* C5: neither a sensor read error nor a failed POST ends the process or
\* stops the main loop.
C5_MainLoopSurvivesErrors ==
    (failed_read # "none" \/ \E i \in 1..Len(sent) : sent[i].ok = "no")
        => Running

\* C6: once the POST of a decided dispatch is over, whether it returned or
\* raised, last_notification is the time of that decision.
C6_LastNotificationOnDispatch ==
    (sent # <<>> /\ sent[Len(sent)].ok # "pending")
        => last_notification = Some(sent[Len(sent)].at)

\* C7: a POST that raises leaves is_unplugged and both windows as they are
\* and the engine goes on to the next readings.
C7_DeliveryFailureKeepsEngine ==
    [][ (main_pc = "post" /\ sent'[Len(sent')].ok = "no")
        => (/\ is_unplugged' = is_unplugged
            /\ current_readings' = current_readings
            /\ power_readings' = power_readings
            /\ main_pc' = "report") ]_vars

\* C8: a tick in which one of the four reads raises puts nothing on the
\* queue and leaves the power window, the current window, is_unplugged and
\* last_notification as they are; every reading that is on the queue, or was,
\* comes from a tick whose four reads all returned.
C8_FailedTickMutatesNothing ==
    [][ /\ failed_read' # failed_read
           => (/\ data_queue' = data_queue
               /\ published' = published
               /\ power_readings' = power_readings
               /\ current_readings' = current_readings
               /\ is_unplugged' = is_unplugged
               /\ last_notification' = last_notification)
        /\ failed_read' # "none" => published' = ticks' - 1 ]_vars

\* the fifth tick fails at its last read, after four readings were published
C8_Witness ==
    /\ failed_read = "power"
    /\ ticks = power_maxlen
    /\ published = power_maxlen - 1
    /\ data_queue # <<>>

\* C9: the queue never holds more than a fixed capacity: a put on a full
\* queue waits for the consumer.
C9_QueueBounded ==
    Len(data_queue) <= QueueCapacity

\* C10: no reading is lost or duplicated: the readings are handed to
\* send_ntfy_notification in the order they were published, each once, and
\* when the consumer has stopped every published reading has been handed.
C10_NoSampleLost ==
    /\ \A i \in 1..Len(handed) : handed[i] = i
    /\ ~Running => Len(handed) = published

\* C11: the four physical reads of a tick form one atomic unit under the lock:
\* the sampler holds data_lock from before the first register access to after
\* the last one, and every register access of the tick was made by the
\* sampling thread with the lock held, none by another thread.
C11_ReadsAtomicUnderLock ==
    /\ sampler_pc \in Reads => data_lock = "sampler"
    /\ \A i \in DOMAIN bus_log :
           bus_log[i].by = "sampler" /\ bus_log[i].lock = "sampler"
    /\ (bus_log # <<>> /\ failed_read = "none" /\ sampler_pc \notin Reads)
           => Len(bus_log) = Len(BusVoltageOps) + Len(ShuntVoltageOps)
                             + Len(CurrentOps) + Len(PowerOps)

\* a whole tick was read while the main thread was waiting for a POST
C11_Witness ==
    /\ Len(bus_log) = Len(BusVoltageOps) + Len(ShuntVoltageOps)
                      + Len(CurrentOps) + Len(PowerOps)
    /\ sampler_pc = "put"
    /\ data_lock = "free"
    /\ main_pc = "post"

\* C12: a report is logged only when at least log_interval has passed since
\* the previous report, or since start-up for the first one, so no two reports
\* are less than log_interval apart; a reading consumed before the interval
\* has passed produces no report and leaves last_log_time alone.
C12_ReportInterval ==
    /\ \A i \in 1..Len(reports) :
           reports[i] - (IF i = 1 THEN 0 ELSE reports[i - 1]) >= log_interval
    /\ last_log_time = IF reports = <<>> THEN 0 ELSE reports[Len(reports)]

\* two reports exactly log_interval apart, and readings consumed in between
\* that were not reported
C12_Witness ==
    /\ Len(reports) = 2
    /\ reports[1] = log_interval
    /\ reports[2] - reports[1] = log_interval
    /\ Len(handed) > Len(reports) + 1
    /\ main_pc = "poll"

\* C13: the signed conversion of getShuntVoltage_mV, getCurrent_mA and
\* getPower_W maps a raw register value v in 0..65535 to v when v <= 32767 and
\* to v - 65535 when v > 32767, so 32768 gives -32767 and 65535 gives 0.
C13_SignedConversion ==
    (calc.fn \in SignedGetters /\ calc.done)
        => LET v == calc.raw
               r == calc.out[1]
           IN  /\ v <= 32767 => r = v
               /\ v > 32767 => r = v - 65535
               /\ v = 32768 => r = 0 - 32767
               /\ v = 65535 => r = 0

\* getPower_W has converted the raw value 32768
C13_Witness ==
    /\ calc.fn = "getPower_W"
    /\ calc.done
    /\ calc.raw = SignedMax + 1
    /\ calc.out = Some(0 - SignedMax)

\* C14: percent is within 0..100 for every bus voltage: it is the (whole)
\* percent of (busVoltage - 3.0) / 1.2 * 100 when that lies in 0..100, 0 when
\* the bus voltage is below 3.0 V and 100 when it is above 4.2 V.
C14_PercentClamped ==
    (calc.fn = "percent" /\ calc.done)
        => LET bus == BusVoltage_mV(calc.raw)
               p == calc.out[1]
           IN  /\ p \in 0..100
               /\ bus < 3000 => p = 0
               /\ bus > 4200 => p = 100
               /\ bus \in 3000..4200
                      => /\ p * 1200 <= (bus - 3000) * 100
                         /\ (bus - 3000) * 100 < (p + 1) * 1200
               /\ (bus \in 3000..4200 /\ (bus - 3000) % 12 = 0)
                      => p * 12 = bus - 3000

\* a bus voltage of 4.4 V has been clamped to 100 percent
C14_Witness ==
    /\ calc.fn = "percent"
    /\ calc.done
    /\ BusVoltage_mV(calc.raw) = 4400
    /\ calc.out = Some(100)

\* C15: estimate_battery_runtime returns None when the power window holds fewer
\* than 5 samples or the average of a full window is below 0.1 W; otherwise it
\* returns capacity * voltage / (average power in mW), which is positive and
\* strictly smaller for every window of larger average power; capacity 1000,
\* voltage 3.7 and an average of 0.5 W give 7.4 hours.
C15_RuntimeEstimate ==
    (calc.fn = "estimate_battery_runtime" /\ calc.done)
        => LET w == calc.window
               r == calc.out
               unavailable == \/ Len(w) < 5
                              \/ Sum(w) < 100 * Len(w)
           IN  /\ unavailable => r = None
               /\ ~unavailable
                      => /\ r # None
                         /\ r[1].num > 0 /\ r[1].den > 0
                         /\ r[1].num * Sum(w) = r[1].den * 3700 * 5
                         /\ \A w2 \in [1..5 -> PowerSamples] :
                                Sum(w2) > Sum(w)
                                    => LET r2 == estimate_battery_runtime(w2)
                                       IN  /\ r2 # None
                                           /\ r2[1].num * r[1].den
                                                  < r[1].num * r2[1].den
               /\ w = <<500, 500, 500, 500, 500>>
                      => (r # None /\ r[1].num * 10 = 74 * r[1].den)

\* the example of the claim: five readings of 0.5 W give 7.4 hours
C15_Witness ==
    /\ calc.fn = "estimate_battery_runtime"
    /\ calc.done
    /\ calc.window = <<500, 500, 500, 500, 500>>
    /\ calc.out # None
    /\ calc.out[1].num * 10 = 74 * calc.out[1].den

C17_CalibrationBeforeRead ==
    \A i \in DOMAIN bus_log :
        bus_log[i].op = "read"
            => \E j \in 1..(i - 1) :
                   /\ bus_log[j].call = bus_log[i].call
                   /\ bus_log[j].op = "write"
                   /\ bus_log[j].reg = "CALIBRATION"

\* C18: configuration errors are fatal at start-up only.  A configuration
\* error ends main before the sensor object exists, before any register access
\* and before the sampling thread starts; main never gets past its validation
\* with an invalid address or threshold; and once the thread has started no
\* configuration error has been or is raised.
C18_ConfigErrorsFatalAtStartup ==
    /\ boot.errors # <<>>
           => (/\ boot.pc = "exited"
               /\ boot.ina219 = None
               /\ boot.writes = <<>>
               /\ ~boot.thread)
    /\ (boot.ina219 # None \/ boot.writes # <<>> \/ boot.thread)
           => LET a == boot.args
              IN  /\ Len(a.addr) = 4
                  /\ a.addr[1] = "0" /\ a.addr[2] = "x"
                  /\ IsHexDigit(a.addr[3]) /\ IsHexDigit(a.addr[4])
                  /\ ~a.power_threshold.nan /\ a.power_threshold.v > 0
                  /\ ~a.percent_threshold.nan
                  /\ a.percent_threshold.v \in 0..100
    /\ boot.thread => boot.errors = <<>>

\* C19: a notification counts as delivered only when the response status is
\* 2xx: a response with any other status is recorded as a failure, not as
\* "Notification sent"; and at most one POST is attempted per decision.
C19_DeliveredOnly2xx ==
    /\ response # None
           => (sent[Len(sent)].ok = "yes" <=> response[1] \in 200..299)
    /\ Len(sent) <= Len(handed)

\* C20: under any interleaving of the two threads the current window holds at
\* most 3 values and the power window at most 5; the windows change only by
\* their appends, and an append to a full window drops exactly the oldest
\* value and keeps the others in arrival order.
C20_RollingWindows ==
    [][ /\ Len(current_readings') <= 3
        /\ Len(power_readings') <= 5
        /\ IF main_pc = "notify" /\ main_pc' # "notify"
              /\ Len(power_readings) >= 5
              /\ (last_notification = None
                  \/ now - last_notification[1] >= notification_cooldown)
           THEN IF Len(current_readings) < 3
                THEN current_readings' = Append(current_readings, data.current)
                ELSE /\ Len(current_readings') = 3
                     /\ current_readings'[1] = current_readings[2]
                     /\ current_readings'[2] = current_readings[3]
                     /\ current_readings'[3] = data.current
           ELSE current_readings' = current_readings
        /\ IF sampler_pc = "append" /\ sampler_pc' # "append"
           THEN IF Len(power_readings) < 5
                THEN power_readings' = Append(power_readings, sample.power)
                ELSE /\ Len(power_readings') = 5
                     /\ \A i \in 1..4 : power_readings'[i] = power_readings[i + 1]
                     /\ power_readings'[5] = sample.power
           ELSE power_readings' = power_readings ]_vars

\* both windows are full and have dropped values: nine readings were consumed
\* outside any cooldown, the last three of them the window <<-20, 20, 20>>
C20_Witness ==
    /\ Len(handed) = 9
    /\ sent = <<>>
    /\ main_pc = "report"
    /\ current_readings = <<0 - 20, 20, 20>>
    /\ Len(power_readings) = power_maxlen
    /\ published > power_maxlen + 1

\* C21: per consumed reading the engine selects at most one message, the
\* first match of the fixed order against the current window as appended to:
\* unplug transition, power-restored transition, low-power alert, low-battery
\* alert.  A reading with power and percent both below their thresholds,
\* consumed plugged (window all above +10, is_unplugged false), gets the
\* low-power alert when the engine evaluates it, and never a low-battery alert.
C21_FirstMatchOrder ==
    [][ EngineStep =>
        LET cr == current_readings'
            neg == \A i \in 1..Len(cr) : cr[i] < 0 - 10
            pos == \A i \in 1..Len(cr) : cr[i] > 10
            first == IF neg /\ ~is_unplugged THEN "unplugged"
                     ELSE IF pos /\ is_unplugged THEN "reconnected"
                     ELSE IF pos /\ data.power < 500 THEN "low_power"
                     ELSE IF pos /\ data.percent < 20 THEN "low_percent"
                     ELSE "none"
            evaluated == /\ Len(power_readings) >= 5
                         /\ \/ last_notification = None
                            \/ now - last_notification[1] >= 300
            both == data.power < 500 /\ data.percent < 20
        IN  /\ Len(sent') <= Len(sent) + 1
            /\ \A i \in 1..Len(sent) : sent'[i] = sent[i]
            /\ Len(sent') > Len(sent)
                   => (evaluated /\ sent'[Len(sent')].kind = first)
            /\ evaluated
                   => /\ message' = first
                      /\ first # "none" => Len(sent') = Len(sent) + 1
            /\ both => (Len(sent') > Len(sent)
                            => sent'[Len(sent')].kind # "low_percent")
            /\ (both /\ evaluated /\ pos /\ ~is_unplugged)
                   => (/\ Len(sent') = Len(sent) + 1
                       /\ sent'[Len(sent')].kind = "low_power") ]_vars

\* a reading with power and percent both below their thresholds, consumed
\* plugged with both windows full, got the low-power alert and no other
C21_Witness ==
    /\ main_pc = "post"
    /\ message = "low_power"
    /\ Len(sent) = 1
    /\ sent[1].kind = "low_power"
    /\ lowrun.len = 1
    /\ lowrun.msgs = 0
    /\ ~is_unplugged
    /\ current_readings = <<20, 20, 20>>
    /\ Len(handed) = published
    /\ power_readings[power_maxlen] < power_threshold

\* C22: every reading consumed by the engine has its current appended to the
\* current window, readings consumed while the cooldown is running included,
\* so the window always holds the currents of the last (up to 3) readings
\* consumed.
C22_CurrentAppendedOnEveryReading ==
    [][ EngineStep =>
        current_readings' =
            IF Len(current_readings) < 3
            THEN Append(current_readings, data.current)
            ELSE Append(Tail(current_readings), data.current) ]_vars

\* C23: the cooldown gates the dispatch of a message only, not the transition:
\* when the last 3 readings consumed, the one of this tick included, all have
\* a current below -10 and is_unplugged is false, is_unplugged is true after
\* the tick, and when they are all above +10 and is_unplugged is true it is
\* false after the tick, also when less than 5 minutes have passed since the
\* last notification.
C23_TransitionNotGatedByCooldown ==
    [][ (EngineStep /\ Len(power_readings) >= 5 /\ streak.len >= 3) =>
        /\ (streak.side = "negative" /\ ~is_unplugged) => is_unplugged'
        /\ (streak.side = "positive" /\ is_unplugged) => ~is_unplugged' ]_vars

\* C24: is_unplugged changes only at the two guarded transitions: from false
\* to true only in an engine step that leaves every value of the current
\* window below -10, from true to false only in one that leaves every value
\* above +10; every other step leaves it as it is, the engine steps that
\* issue a low-power or low-battery alert and those that leave a mixed window
\* included.
C24_UnpluggedFrame ==
    [][ LET cr == current_readings'
            neg == cr # <<>> /\ \A i \in 1..Len(cr) : cr[i] < 0 - 10
            pos == cr # <<>> /\ \A i \in 1..Len(cr) : cr[i] > 10
            alert == /\ Len(sent') > Len(sent)
                     /\ sent'[Len(sent')].kind \in {"low_power", "low_percent"}
        IN  /\ (~is_unplugged /\ is_unplugged') => (EngineStep /\ neg)
            /\ (is_unplugged /\ ~is_unplugged') => (EngineStep /\ pos)
            /\ alert => is_unplugged' = is_unplugged
            /\ (~neg /\ ~pos) => is_unplugged' = is_unplugged ]_vars

\* both transitions were made, each with its message, and readings were
\* consumed in between that left a mixed window and is_unplugged alone
C24_Witness ==
    /\ Len(sent) = 2
    /\ sent[1].kind = "unplugged"
    /\ sent[2].kind = "reconnected"
    /\ ~is_unplugged
    /\ current_readings = <<20, 20, 20>>
    /\ streak = [side |-> "positive", len |-> 3]

\* C25: under every interleaving of the two threads, when the engine evaluates
\* a reading taken from the queue the power window already holds that
\* reading's power; so the power-window gate of the engine is open for the
\* 5th published reading and for every later one.
C25_PowerAppendedBeforeEvaluation ==
    [][ EngineStep =>
        LET appended == published - (IF sampler_pc = "append" THEN 1 ELSE 0)
        IN  /\ appended >= data.id
            /\ data.id >= 5 => Len(power_readings) >= 5 ]_vars

\* C26: apart from the queue, the sensor is the only state the two threads
\* share: the sampling thread is never about to write the power window, the
\* lock not held, while the main thread is about to read it (the length test
\* and the average of the engine), the lock not held either.
C26_OnlySensorShared ==
    ~(sampler_pc = "append" /\ main_pc = "notify" /\ data_lock = "free")

C28_LockReleased ==
    /\ data_lock \in {"free", "sampler"}
    /\ data_lock = "sampler" => sampler_pc \in Reads
    /\ sampler_pc \in {"sleep", "put", "append", "dead"} => data_lock = "free"
    /\ failed_read # "none" => data_lock = "free"

\* two ticks released the lock after their four reads and the third at the
\* read that raised
C28_Witness ==
    /\ failed_read = "current"
    /\ sampler_pc = "dead"
    /\ data_lock = "free"
    /\ ticks = 3
    /\ published = 2
    /\ Len(power_readings) = 2

\* C29: start-up validation accepts a configuration exactly when the address
\* is 0x followed by two hex digits, the power threshold is > 0, the percent
\* threshold lies in 0..100 inclusive, the battery capacity is > 0 and the
\* battery voltage is > 0; every other configuration ends main with an error.
C29_ValidationAcceptsExactlyValid ==
    LET a == boot.args
        valid == /\ Len(a.addr) = 4
                 /\ a.addr[1] = "0" /\ a.addr[2] = "x"
                 /\ IsHexDigit(a.addr[3]) /\ IsHexDigit(a.addr[4])
                 /\ ~a.power_threshold.nan /\ a.power_threshold.v > 0
                 /\ ~a.percent_threshold.nan
                 /\ a.percent_threshold.v >= 0 /\ a.percent_threshold.v <= 100
                 /\ a.battery_capacity > 0
                 /\ ~a.battery_voltage.nan /\ a.battery_voltage.v > 0
    IN  /\ boot.pc \in {"construct", "start_thread", "running"} => valid
        /\ boot.pc = "exited" => (~valid /\ boot.errors # <<>>)

\* C30: register transfer is big-endian and round-trips: for every v in
\* 0..65535 write sends the two bytes v div 256, v mod 256 in that order and
\* read of those two bytes returns v; the bits above 16 of a written value
\* are discarded.
C30_BigEndianRoundTrip ==
    /\ (calc.fn = "write" /\ calc.done)
           => LET v == calc.raw
              IN  /\ v <= 65535 => calc.out = <<<<v \div 256, v % 256>>>>
                  /\ calc.out = <<<<(v % 65536) \div 256, v % 256>>>>
    /\ calc.fn = "read"
           => LET v == calc.raw
              IN  /\ calc.window = <<(v % 65536) \div 256, v % 256>>
                  /\ v <= 65535 => calc.out = <<v>>
                  /\ calc.out = <<v % 65536>>

\* 0x11234 was written as the bytes 0x12, 0x34 and read back as 0x1234
C30_Witness ==
    /\ calc.fn = "read"
    /\ calc.raw = 65536 + 4660
    /\ calc.window = <<18, 52>>
    /\ calc.out = <<4660>>

\* C31: a failing platform query (CPU temperature, GPU temperature, hostname,
\* local IP) never aborts a report: the report is logged completely, the field
\* of every failed query reads "Unknown", and last_log_time is set as for a
\* report without failure; main goes on.
C31_QueryFailureKeepsReport ==
    /\ main_pc # "exited"
    /\ last_report # NoReport
           => LET r == last_report
              IN  /\ Len(r.lines) = 10
                  /\ [i \in 1..10 |-> r.lines[i].line]
                         = <<"Load Voltage", "Current", "Power", "Percent",
                             "System Info", "Hostname", "IP Address",
                             "CPU Temp", "GPU Temp", "---">>
                  /\ "hostname" \in r.failed
                         => r.lines[6].field.text = "Unknown"
                  /\ "ip" \in r.failed => r.lines[7].field.text = "Unknown"
                  /\ "cpu" \in r.failed => r.lines[8].field.text = "Unknown"
                  /\ "gpu" \in r.failed => r.lines[9].field.text = "Unknown"
                  /\ reports # <<>>
                  /\ reports[Len(reports)] = r.at
                  /\ last_log_time = r.at

\* the second report met four failing queries: it is complete, its four
\* fields read "Unknown", and main is back at its poll
C31_Witness ==
    /\ last_report.failed = {"hostname", "ip", "cpu", "gpu"}
    /\ Len(last_report.lines) = 10
    /\ Len(reports) = 2
    /\ last_log_time = 2 * log_interval
    /\ last_report.at = last_log_time
    /\ main_pc = "poll"

\* the number of values the sampling thread has appended to the power window:
\* one per reading put on the queue, the last one not yet while the thread is
\* between its put and its append
Appended == published - (IF sampler_pc = "append" THEN 1 ELSE 0)

\* C32: the start-up gate is monotonic: the power window holds every appended
\* value until there are 5 and exactly 5 from then on, however many more are
\* appended; so once 5 values were appended no reading handed to the engine
\* meets a window that is not full, and when the "unplugged" message has been
\* composed the window-not-full test of estimate_battery_runtime is false.
C32_GateMonotonic ==
    /\ Len(power_readings) = (IF Appended < power_maxlen THEN Appended
                              ELSE power_maxlen)
    /\ (Appended >= power_maxlen /\ main_pc = "notify")
           => ~(Len(power_readings) < power_maxlen)
    /\ (main_pc = "post" /\ message = "unplugged")
           => /\ ~(Len(power_readings) < power_maxlen)
              /\ estimate_battery_runtime(power_readings) # None
                     \/ Sum(power_readings) < min_avg_power * power_maxlen

\* more values were appended than the window holds, the window is still full,
\* and the "unplugged" message has just been composed over it
C32_Witness ==
    /\ Appended > power_maxlen
    /\ Len(power_readings) = power_maxlen
    /\ main_pc = "post"
    /\ message = "unplugged"
    /\ estimate_battery_runtime(power_readings) # None

\* C33: in both container scripts run_container_tasks starts the tasks in the
\* order down, pull, build, up, prune, each only after every task started
\* before it ended with exit code 0; a task that ends otherwise (another exit
\* code, a timeout, an exception) is the last one started and ends the run;
\* only prune is ever skipped, and only in interactive mode on an answer
\* other than y.
C33_TasksStopAtFirstFailure ==
    LET order == <<"down", "pull", "build", "up", "prune">>
        n == Len(job.started)
    IN  /\ n <= Len(order)
        /\ job.started = SubSeq(order, 1, n)
        /\ Len(job.results) \in {n, n - 1}
        /\ Len(job.results) = n - 1 <=> job.pc = "running"
        /\ \A k \in 1..Len(job.results) :
               job.results[k] # Exit(0) => k = n /\ job.pc = "exited"
        /\ job.skipped \subseteq {"prune"}
        /\ job.skipped # {}
               => job.interactive /\ job.asked /\ job.answer # "y"
        /\ job.pc = "returned"
               => /\ \A k \in 1..n : job.results[k] = Exit(0)
                  /\ {job.started[k] : k \in 1..n} \cup job.skipped
                         = {order[k] : k \in 1..Len(order)}
        /\ (job.pc = "loop" /\ job.task <= Len(order))
               => n = job.task - 1

\* presto_compose_refresh: down ended with 0 and pull with 1, and the run is
\* over with build, up and prune never started
C33_Witness ==
    /\ job.script = "presto_compose_refresh"
    /\ job.started = <<"down", "pull">>
    /\ job.results = <<Exit(0), Exit(1)>>
    /\ job.pc = "exited"
    /\ job.raised = "SystemExit"

====
